---------------------------- MODULE Spec2Model ----------------------------
(***************************************************************************)
(* A model of the video de-duplication pipeline of src/Dedup/dedup.py.     *)
(*                                                                         *)
(* Spec      VideoHandler.process_video: the audio stages, the lazy chain  *)
(*           _write_frames <- _process_frames <- frame generator, the      *)
(*           worker pool of _process_batch, the encoder subprocess, the    *)
(*           metadata-clean pass and the finally block.                    *)
(* SpecFrame VideoHandler._process_single_frame on one frame: the shape of *)
(*           the raster through the effect chain.                          *)
(* SpecSwap  the frame-swap index remap get_original_idx.                  *)
(*                                                                         *)
(* A frame is [idx |-> its output index, src |-> the source index read].   *)
(* A file is the name of the role it plays (the paths are mktemp names).   *)
(***************************************************************************)
EXTENDS Integers, Sequences, FiniteSets, TLC

\* ------------------------------------------------------------------ bounds
MaxFrames == 3
MaxBatch == 2
MaxWorkers == 2
MaxIntro == 1
MaxInterval == 3
MaxTotal == 6
MaxDim == 4
MaxAudio == 4
MaxSilent == 2
MaxSeconds == 2
MaxVideos == 3

\* The sticker folder holds this many image files (os.listdir, line 1528).
NumStickers == 2
\* sticker_change_interval when switching is enabled (a scaled default).
StickerInterval == 2

VARIABLES
    config,             \* VideoConfig, the fields the pipeline reads
    total_frames,       \* cap.get(CAP_PROP_FRAME_COUNT)
    batch_size,         \* self.batch_size
    max_workers,        \* min(4, os.cpu_count())
    rolled,             \* the random run parameters resolved so far
    has_audio,          \* the input has an audio track
    pc,                 \* the main thread's position
    exc,                \* origin of the exception that is propagating
    outcome,            \* how process_video ended
    site,               \* where _write_frames resumed the generator from
    gen_state,          \* _process_frames: fresh, loop, tail, done
    next_idx,           \* the frame generator's frame_idx / output_idx
    batch,              \* _process_frames' batch
    tasks,              \* the futures of _process_batch, in submission order
    done_order,         \* positions of the futures in completion order
    processed_batch,    \* the list _process_batch returned
    yield_i,            \* frames of processed_batch already yielded
    emitted,            \* every frame _process_frames has yielded
    sticker_cache,      \* self.sticker_cache['sticker_idx'], or NoSticker
    stickers_used,      \* sticker indices composited so far in this run
    cur,                \* the frame the consumer just received
    first_frame,
    last_frame,
    loop_i,             \* the intro / outro / cleanup loop counter
    written,            \* records written to process.stdin
    frame_count,
    dropped_count,
    duplicated_count,
    encoder,            \* the encoder subprocess: none, running, exited
    enc_rc,             \* its exit status
    stdin_open,
    files,              \* the files that exist
    temp_files,         \* process_video's temp_files list
    audio_stream,       \* what the encoder gets as audio: a file, or none
    processed_audio_path,
    speed_factor,       \* the run's speed factor, in thousandths
    atempo,             \* the atempo filter on audio_stream, or 0
    audio_log,          \* the audio stages passed: stage, input, output
    enc_r,              \* the r option of the encoder's output
    fr,                 \* SpecFrame: the frame being transformed
    sw,                 \* SpecSwap: the remap's input and results
    au,                 \* SpecAudio: the audio segment being processed
    wm,                 \* SpecWatermark: a call of get_watermark_position
    vc,                 \* SpecValidate: a Config and what validate did
    drv                 \* SpecDriver: the batch driver of standalone_dedup

rollVars == <<config, rolled>>
inputVars == <<rollVars, total_frames, batch_size, max_workers, has_audio>>
ctlVars == <<pc, exc, outcome>>
genVars == <<site, gen_state, next_idx, batch, processed_batch, yield_i, emitted>>
poolVars == <<tasks, done_order>>
stickerVars == <<sticker_cache, stickers_used>>
writeVars == <<cur, first_frame, last_frame, loop_i, written, frame_count,
               dropped_count, duplicated_count>>
encVars == <<encoder, enc_rc, stdin_open>>
fileVars == <<files, temp_files>>
streamVars == <<audio_stream, processed_audio_path, speed_factor, atempo,
                audio_log>>
audioVars == <<streamVars, enc_r>>
pureVars == <<fr, sw, au, wm, vc, drv>>

vars == <<inputVars, ctlVars, genVars, poolVars, stickerVars, writeVars,
          encVars, fileVars, audioVars, pureVars>>

\* ----------------------------------------------------------------- values
NoSticker == -1
NoFrame == [idx |-> -1, src |-> -1]
NoFile == "none"

\* The frame rate get_video_properties returned (line 1686).
fps == 30

Range(s) == {s[i] : i \in 1..Len(s)}


\* --------------------------------------------------- the frame generators
\* get_original_idx: the frame-swap remap (a closure over self.config).
get_original_idx(output_idx, interval, total, enable_frame_swap) ==
    IF interval <= 0 \/ ~enable_frame_swap THEN output_idx
    ELSE LET k == output_idx \div interval IN
         IF output_idx % interval = 0 /\ k * interval + 1 < total
            THEN k * interval + 1
         ELSE IF output_idx % interval = 1 /\ k * interval + 1 < total
            THEN k * interval
         ELSE output_idx

\* The source index the chosen generator reads for output index i:
\* swapped_frame_generator seeks to the remapped index, _frame_generator
\* reads sequentially.
source_index(i) ==
    IF config.enable_frame_swap
       THEN get_original_idx(i, config.frame_swap_interval, total_frames,
                             config.enable_frame_swap)
       ELSE i

\* ------------------------------------------------------- _process_batch
\* sorted(..., key=lambda x: x[0]): a stable insertion sort on idx.
RECURSIVE InsertByIdx(_, _)
InsertByIdx(x, s) ==
    IF s = <<>> THEN <<x>>
    ELSE IF x.idx < Head(s).idx THEN <<x>> \o s
    ELSE <<Head(s)>> \o InsertByIdx(x, Tail(s))

RECURSIVE SortByIdx(_)
SortByIdx(s) ==
    IF s = <<>> THEN <<>>
    ELSE InsertByIdx(s[Len(s)], SortByIdx(SubSeq(s, 1, Len(s) - 1)))

\* [f.result() for f in futures]: the results in submission order.
FutureResults(ts) == [i \in 1..Len(ts) |-> ts[i].result]

\* A collection that takes the results as the workers complete and does
\* not sort them.
process_batch_result_as_completed(ts, order) ==
    [i \in 1..Len(order) |-> ts[order[i]].result]

\* What _process_batch returns when no future raised.
process_batch_result(ts, order) == SortByIdx(FutureResults(ts))

\* _process_frames keeps the batch it already emitted.
next_batch_kept(b) == b

\* batch = [] after a full batch has been yielded (line 1844).
next_batch(b) == <<>>

\* The trailing partial batch is forgotten.
tail_pending_never(b) == FALSE

\* if batch: (line 1845) the trailing partial batch is still processed.
tail_pending(b) == b # <<>>

Finished(st) == st \in {"done", "raised"}
Running(st) == ~Finished(st) /\ st # "queued"
NumRunning == Cardinality({i \in 1..Len(tasks) : Running(tasks[i].st)})

\* ------------------------------------------------------- exceptions
\* An exception raised in the try block of process_video unwinds to its
\* finally block; origin names the statement that raised.
Raise(origin) ==
    /\ exc' = origin
    /\ pc' = "pv_finally"
    /\ outcome' = outcome

\* ------------------------------------------------------ _process_frames
\* The consumer calls next() on the generator: it continues where it was
\* suspended. Fresh: batch = [] and the outer loop starts. Suspended at a
\* yield: the next frame of processed_batch, or, after the last one, the
\* outer loop again (line 1844) or the generator's end (after line 1848).
process_frames_resume ==
    /\ pc = "pf_resume"
    /\ IF gen_state = "fresh"
          THEN /\ gen_state' = "loop"
               /\ batch' = <<>>
               /\ pc' = "pf_read"
               /\ UNCHANGED <<exc, outcome>>
          ELSE IF yield_i < Len(processed_batch)
          THEN /\ pc' = "pf_yield"
               /\ UNCHANGED <<gen_state, batch, exc, outcome>>
          ELSE IF gen_state = "loop"
          THEN /\ batch' = next_batch(batch)
               /\ pc' = "pf_read"
               /\ UNCHANGED <<gen_state, exc, outcome>>
          ELSE /\ gen_state' = "done"
               /\ batch' = batch
               /\ IF site = "first"
                     THEN Raise("StopIteration")
                     ELSE /\ pc' = "wf_outro"
                          /\ UNCHANGED <<exc, outcome>>
    /\ UNCHANGED <<inputVars, site, next_idx, processed_batch, yield_i, emitted,
                   poolVars, stickerVars, writeVars, encVars, fileVars,
                   audioVars, pureVars>>

\* for frame_idx, frame in frame_generator: one frame is decoded and
\* appended; a full batch goes to _process_batch. When the generator is
\* exhausted a non-empty batch goes to _process_batch as the last one.
process_frames_read ==
    /\ pc = "pf_read"
    /\ IF next_idx < total_frames
          THEN LET b == Append(batch, [idx |-> next_idx,
                                       src |-> source_index(next_idx)]) IN
               /\ batch' = b
               /\ next_idx' = next_idx + 1
               /\ pc' = IF Len(b) >= batch_size THEN "pb_submit" ELSE "pf_read"
               /\ UNCHANGED <<gen_state, exc, outcome>>
          ELSE /\ UNCHANGED <<batch, next_idx>>
               /\ IF tail_pending(batch)
                     THEN /\ gen_state' = "tail"
                          /\ pc' = "pb_submit"
                          /\ UNCHANGED <<exc, outcome>>
                     ELSE /\ gen_state' = "done"
                          /\ IF site = "first"
                                THEN Raise("StopIteration")
                                ELSE /\ pc' = "wf_outro"
                                     /\ UNCHANGED <<exc, outcome>>
    /\ UNCHANGED <<inputVars, site, processed_batch, yield_i, emitted,
                   poolVars, stickerVars, writeVars, encVars, fileVars,
                   audioVars, pureVars>>

\* yield processed_frame: the consumer continues with the frame.
process_frames_yield ==
    /\ pc = "pf_yield"
    /\ yield_i < Len(processed_batch)
    /\ yield_i' = yield_i + 1
    /\ cur' = processed_batch[yield_i + 1]
    /\ emitted' = Append(emitted, processed_batch[yield_i + 1])
    /\ pc' = IF site = "first" THEN "wf_spawn" ELSE "wf_body"
    /\ UNCHANGED <<inputVars, exc, outcome, site, gen_state, next_idx, batch,
                   processed_batch, poolVars, stickerVars, first_frame,
                   last_frame, loop_i, written, frame_count, dropped_count,
                   duplicated_count, encVars, fileVars, audioVars, pureVars>>

\* ------------------------------------------------------- _process_batch
\* executor.submit for every frame of the batch: one future per frame, in
\* batch order (lines 1866-1867).
process_batch_submit ==
    /\ pc = "pb_submit"
    /\ tasks' = [i \in 1..Len(batch) |->
                    [st |-> "queued", frame |-> batch[i],
                     sticker_idx |-> 0, result |-> NoFrame]]
    /\ done_order' = <<>>
    /\ pc' = "pb_wait"
    /\ UNCHANGED <<inputVars, exc, outcome, genVars, stickerVars, writeVars,
                   encVars, fileVars, audioVars, pureVars>>

\* Every other variable a worker step leaves alone.
WorkerFrame == UNCHANGED <<inputVars, ctlVars, genVars, writeVars, encVars,
                           fileVars, audioVars, pureVars>>

TaskFinish(i, st, res) ==
    /\ tasks' = [tasks EXCEPT ![i].st = st, ![i].result = res]
    /\ done_order' = Append(done_order, i)

\* The pool starts a thread for every work item.
pool_thread_free_always == TRUE

\* ThreadPoolExecutor(max_workers=...), line 1865: a work item is taken
\* only by one of the pool's max_workers threads that is not running one.
pool_thread_free == NumRunning < max_workers

\* A pool thread takes the oldest queued work item; the pool has
\* max_workers threads (line 1865).
worker_start(i) ==
    /\ pc = "pb_wait"
    /\ tasks[i].st = "queued"
    /\ \A j \in 1..(i - 1) : tasks[j].st # "queued"
    /\ pool_thread_free
    /\ tasks' = [tasks EXCEPT ![i].st = "running"]
    /\ UNCHANGED <<done_order, stickerVars>>
    /\ WorkerFrame

\* _process_single_frame, lines 1887-1923: colour conversion, flip, rotate,
\* crop, resize and the effects up to the dynamic border. No statement of
\* the function catches an exception: an effect that raises ends the
\* worker and the exception is stored in the future.
process_single_frame_effects(i) ==
    /\ pc = "pb_wait"
    /\ tasks[i].st = "running"
    /\ \/ /\ tasks' = [tasks EXCEPT ![i].st = "sticker"]
          /\ UNCHANGED done_order
       \/ TaskFinish(i, "raised", NoFrame)
    /\ UNCHANGED stickerVars
    /\ WorkerFrame

\* apply_sticker up to sticker_cache.get (lines 1520-1539). Disabled, or
\* no folder or file: the frame is returned. Switching enabled: the index
\* follows from the frame index. Otherwise the cache is read, with 0 as
\* the default.
apply_sticker_get(i) ==
    /\ pc = "pb_wait"
    /\ tasks[i].st = "sticker"
    /\ IF ~config.enable_sticker
          THEN /\ tasks' = [tasks EXCEPT ![i].st = "dct"]
               /\ UNCHANGED stickers_used
          ELSE IF config.sticker_change_interval > 0
          THEN LET k == (tasks[i].frame.idx \div config.sticker_change_interval)
                          % NumStickers IN
               /\ tasks' = [tasks EXCEPT ![i].st = "dct", ![i].sticker_idx = k]
               /\ stickers_used' = stickers_used \cup {k}
          ELSE /\ tasks' = [tasks EXCEPT
                              ![i].st = "s_check",
                              ![i].sticker_idx =
                                  IF sticker_cache = NoSticker THEN 0
                                  ELSE sticker_cache]
               /\ UNCHANGED stickers_used
    /\ UNCHANGED <<done_order, sticker_cache>>
    /\ WorkerFrame

\* if 'sticker_idx' not in sticker_cache (line 1540). With the key present
\* the index read by get is the one composited (line 1544).
apply_sticker_check(i) ==
    /\ pc = "pb_wait"
    /\ tasks[i].st = "s_check"
    /\ IF sticker_cache = NoSticker
          THEN /\ tasks' = [tasks EXCEPT ![i].st = "s_write"]
               /\ UNCHANGED stickers_used
          ELSE /\ tasks' = [tasks EXCEPT ![i].st = "dct"]
               /\ stickers_used' = stickers_used \cup {tasks[i].sticker_idx}
    /\ UNCHANGED <<done_order, sticker_cache>>
    /\ WorkerFrame

\* sticker_cache['sticker_idx'] = random.randint(0, len(files) - 1).
apply_sticker_write(i) ==
    /\ pc = "pb_wait"
    /\ tasks[i].st = "s_write"
    /\ \E r \in 0..(NumStickers - 1) : sticker_cache' = r
    /\ tasks' = [tasks EXCEPT ![i].st = "s_read"]
    /\ UNCHANGED <<done_order, stickers_used>>
    /\ WorkerFrame

\* sticker_idx = sticker_cache['sticker_idx'] (line 1542), then the
\* sticker of that index is composited (line 1544).
apply_sticker_read(i) ==
    /\ pc = "pb_wait"
    /\ tasks[i].st = "s_read"
    /\ tasks' = [tasks EXCEPT ![i].st = "dct", ![i].sticker_idx = sticker_cache]
    /\ stickers_used' = stickers_used \cup {sticker_cache}
    /\ UNCHANGED <<done_order, sticker_cache>>
    /\ WorkerFrame

\* apply_dct_perturbation and return (frame_idx, frame) (lines 1925-1927);
\* the last effect may raise like the others.
process_single_frame_return(i) ==
    /\ pc = "pb_wait"
    /\ tasks[i].st = "dct"
    /\ \/ TaskFinish(i, "done", tasks[i].frame)
       \/ TaskFinish(i, "raised", NoFrame)
    /\ UNCHANGED stickerVars
    /\ WorkerFrame

\* The results are collected as soon as one work item has finished.
batch_complete_first ==
    \E i \in 1..Len(tasks) : Finished(tasks[i].st)

\* Line 1868 and the end of the with block: f.result() is taken of every
\* future and shutdown(wait=True) waits for every work item.
batch_complete ==
    \A i \in 1..Len(tasks) : Finished(tasks[i].st)

\* The with block ends (executor.shutdown(wait=True)) once every work item
\* has finished. f.result() re-raises the exception of a failed future:
\* _process_batch raises. Otherwise it returns the sorted results.
process_batch_return ==
    /\ pc = "pb_wait"
    /\ batch_complete
    /\ IF \E i \in 1..Len(tasks) : tasks[i].st = "raised"
          THEN /\ Raise("effect")
               /\ UNCHANGED <<processed_batch, yield_i>>
          ELSE /\ processed_batch' = process_batch_result(tasks, done_order)
               /\ yield_i' = 0
               /\ pc' = "pf_yield"
               /\ UNCHANGED <<exc, outcome>>
    /\ tasks' = <<>>
    /\ UNCHANGED <<inputVars, site, gen_state, next_idx, batch, emitted,
                   done_order, stickerVars, writeVars, encVars, fileVars,
                   audioVars, pureVars>>

\* -------------------------------------------------------- _write_frames
Timeline == config.enable_timeline_randomize

\* A record on the encoder's stdin: the frame it was made from and the
\* write statement it came from: intro (line 1974), first (line 1978),
\* frame (line 1993), dup (line 1999), outro (line 2008).
Rec(kind, f) == [kind |-> kind, idx |-> f.idx, src |-> f.src]

\* The intro loop runs once more than add_intro_frames.
intro_pending_one_more(i) == Timeline /\ i <= config.add_intro_frames

\* Lines 1971-1973: intro frames are written while fewer than
\* add_intro_frames have been, with timeline randomization enabled.
intro_pending(i) == Timeline /\ i < config.add_intro_frames

\* The outro loop runs once more than add_outro_frames.
outro_pending_one_more(i) == Timeline /\ i <= config.add_outro_frames

\* Lines 2005-2007: the same for the outro frames.
outro_pending(i) == Timeline /\ i < config.add_outro_frames

\* process.stdin.write(rec): the record reaches the encoder, which has
\* created the output file by the time it has consumed its first record;
\* or the encoder has failed since the last write and the write raises
\* BrokenPipeError.
StdinWrite(rec, next_pc) ==
    \/ /\ written' = Append(written, rec)
       /\ files' = files \cup {"output"}
       /\ pc' = next_pc
       /\ UNCHANGED <<exc, outcome, encoder, enc_rc>>
    \/ /\ encoder' = "exited"
       /\ enc_rc' = 1
       /\ Raise("pipe")
       /\ UNCHANGED <<written, files>>

\* first_frame = next(frame_generator) (line 1942).
write_frames_first ==
    /\ pc = "wf_first"
    /\ site' = "first"
    /\ pc' = "pf_resume"
    /\ UNCHANGED <<inputVars, exc, outcome, gen_state, next_idx, batch,
                   processed_batch, yield_i, emitted, poolVars, stickerVars,
                   writeVars, encVars, fileVars, audioVars, pureVars>>

\* The output frame rate is the probed one whatever the speed factor.
output_r_probed(rate, factor) == rate * 1000

\* Lines 1955 and 1964: r = fps * speed_factor.
output_r(rate, factor) == rate * factor

\* Lines 1943-1968: the output is described with r = fps * speed_factor
\* (in thousandths of a frame per second) and the encoder subprocess is
\* started with run_async, or starting it raises (no ffmpeg executable).
write_frames_spawn ==
    /\ pc = "wf_spawn"
    /\ first_frame' = cur
    /\ loop_i' = 0
    /\ \/ /\ encoder' = "running"
          /\ stdin_open' = TRUE
          /\ pc' = "wf_intro"
          /\ UNCHANGED <<exc, outcome>>
       \/ /\ Raise("spawn")
          /\ UNCHANGED <<encoder, stdin_open>>
    /\ enc_r' = output_r(fps, speed_factor)
    /\ UNCHANGED <<inputVars, genVars, poolVars, stickerVars, cur, last_frame,
                   written, frame_count, dropped_count, duplicated_count,
                   enc_rc, fileVars, streamVars, pureVars>>

\* Lines 1971-1975: add_intro_frames copies of the intro frame, made from
\* first_frame, one write each.
write_frames_intro ==
    /\ pc = "wf_intro"
    /\ IF intro_pending(loop_i)
          THEN /\ StdinWrite(Rec("intro", first_frame), "wf_intro")
               /\ loop_i' = loop_i + 1
          ELSE /\ pc' = "wf_write_first"
               /\ loop_i' = 0
               /\ UNCHANGED <<exc, outcome, written, encoder, enc_rc, files>>
    /\ UNCHANGED <<inputVars, genVars, poolVars, stickerVars, cur, first_frame,
                   last_frame, frame_count, dropped_count, duplicated_count,
                   stdin_open, temp_files, audioVars, pureVars>>

\* Lines 1978-1984: the first frame is written unconditionally.
write_frames_write_first ==
    /\ pc = "wf_write_first"
    /\ StdinWrite(Rec("first", first_frame), "wf_loop")
    /\ last_frame' = first_frame
    /\ frame_count' = 1
    /\ dropped_count' = 0
    /\ duplicated_count' = 0
    /\ UNCHANGED <<inputVars, genVars, poolVars, stickerVars, cur, first_frame,
                   loop_i, stdin_open, temp_files, audioVars, pureVars>>

\* for frame in frame_generator (line 1986).
write_frames_loop ==
    /\ pc = "wf_loop"
    /\ site' = "loop"
    /\ pc' = "pf_resume"
    /\ UNCHANGED <<inputVars, exc, outcome, gen_state, next_idx, batch,
                   processed_batch, yield_i, emitted, poolVars, stickerVars,
                   writeVars, encVars, fileVars, audioVars, pureVars>>

\* Lines 1988-1994: the frame is dropped at random, or it is written.
write_frames_body ==
    /\ pc = "wf_body"
    /\ \/ /\ Timeline /\ config.frame_drop_ratio > 0
          /\ dropped_count' = dropped_count + 1
          /\ pc' = "wf_loop"
          /\ UNCHANGED <<exc, outcome, written, frame_count, encoder, enc_rc,
                         files>>
       \/ /\ StdinWrite(Rec("frame", cur), "wf_dup")
          /\ frame_count' = frame_count + 1
          /\ UNCHANGED dropped_count
    /\ UNCHANGED <<inputVars, genVars, poolVars, stickerVars, cur, first_frame,
                   last_frame, loop_i, duplicated_count, stdin_open,
                   temp_files, audioVars, pureVars>>

\* Lines 1997-2002: the frame is written a second time at random;
\* last_frame = frame.
write_frames_dup ==
    /\ pc = "wf_dup"
    /\ \/ /\ Timeline /\ config.frame_duplicate_ratio > 0
          /\ StdinWrite(Rec("dup", cur), "wf_loop")
          /\ duplicated_count' = duplicated_count + 1
       \/ /\ pc' = "wf_loop"
          /\ UNCHANGED <<exc, outcome, written, duplicated_count, encoder,
                         enc_rc, files>>
    /\ last_frame' = cur
    /\ UNCHANGED <<inputVars, genVars, poolVars, stickerVars, cur, first_frame,
                   loop_i, frame_count, dropped_count, stdin_open, temp_files,
                   audioVars, pureVars>>

\* The outro is made from the frame the loop received last.
outro_reference_received == cur

\* Line 2005: the reference frame of the outro is last_frame.
outro_reference == last_frame

\* Lines 2005-2009: add_outro_frames copies of the outro frame, made from
\* last_frame, one write each.
write_frames_outro ==
    /\ pc = "wf_outro"
    /\ IF outro_pending(loop_i)
          THEN /\ StdinWrite(Rec("outro", outro_reference), "wf_outro")
               /\ loop_i' = loop_i + 1
          ELSE /\ pc' = "wf_close"
               /\ loop_i' = 0
               /\ UNCHANGED <<exc, outcome, written, encoder, enc_rc, files>>
    /\ UNCHANGED <<inputVars, genVars, poolVars, stickerVars, cur, first_frame,
                   last_frame, frame_count, dropped_count, duplicated_count,
                   stdin_open, temp_files, audioVars, pureVars>>

\* process.stdin.close() (line 2014).
write_frames_close ==
    /\ pc = "wf_close"
    /\ stdin_open' = FALSE
    /\ pc' = "wf_wait"
    /\ UNCHANGED <<inputVars, exc, outcome, genVars, poolVars, stickerVars,
                   writeVars, encoder, enc_rc, fileVars, audioVars, pureVars>>

\* process.wait() (line 2015): the encoder has exited, with status 0 and
\* the output file written, or with another status. The status is not
\* read; line 2016 logs completion.
write_frames_wait ==
    /\ pc = "wf_wait"
    /\ encoder' = "exited"
    /\ \/ /\ enc_rc' = 0
          /\ files' = files \cup {"output"}
       \/ /\ enc_rc' = 1
          /\ UNCHANGED files
    /\ pc' = "wf_meta"
    /\ UNCHANGED <<inputVars, exc, outcome, genVars, poolVars, stickerVars,
                   writeVars, stdin_open, temp_files, audioVars, pureVars>>

\* ------------------------------------------ MetadataHandler.clean_metadata
\* Lines 2019-2020 and 585-620: with enable_metadata_clean the remux
\* subprocess runs on the output file; it may create its temp file
\* before it ends with status 0, with another status, or before
\* subprocess.run raises (timeout). Status 0 needs the input file.
clean_metadata_run ==
    /\ pc = "wf_meta"
    /\ IF ~config.enable_metadata_clean
          THEN /\ pc' = "pv_finally"
               /\ UNCHANGED files
          ELSE \/ /\ "output" \in files
                  /\ files' = files \cup {"meta_tmp"}
                  /\ pc' = "cm_move"
               \/ /\ \E made \in BOOLEAN :
                        files' = IF made THEN files \cup {"meta_tmp"} ELSE files
                  /\ pc' = "cm_remove"
    /\ UNCHANGED <<inputVars, exc, outcome, genVars, poolVars, stickerVars,
                   writeVars, encVars, temp_files, audioVars, pureVars>>

\* Lines 622-638: status 0 moves the temp file over the output; any other
\* end removes the temp file if it exists. Nothing is raised.
clean_metadata_end ==
    /\ pc \in {"cm_move", "cm_remove"}
    /\ files' = IF pc = "cm_move"
                   THEN (files \ {"meta_tmp"}) \cup {"output"}
                   ELSE files \ {"meta_tmp"}
    /\ pc' = "pv_finally"
    /\ UNCHANGED <<inputVars, exc, outcome, genVars, poolVars, stickerVars,
                   writeVars, encVars, temp_files, audioVars, pureVars>>

\* ------------------------------------------- process_video: finally block
RECURSIVE RemoveAll(_, _)
RemoveAll(fs, tf) ==
    IF tf = <<>> THEN fs ELSE RemoveAll(fs \ {Head(tf)}, Tail(tf))

\* Lines 1798-1802: cap.release(), then every path of temp_files that
\* exists is removed. process_video returns, or the exception goes on to
\* the caller.
process_video_finally ==
    /\ pc = "pv_finally"
    /\ files' = RemoveAll(files, temp_files)
    /\ outcome' = IF exc = "none" THEN "returned" ELSE "raised"
    /\ pc' = "done"
    /\ UNCHANGED <<inputVars, exc, genVars, poolVars, stickerVars, writeVars,
                   encVars, temp_files, audioVars, pureVars>>

\* ------------------------------------------------- process_video: set-up
\* Lines 1674-1688: the probes of the input run before the try block; an
\* unreadable input raises from there and no file has been created.
process_video_probe ==
    /\ pc = "pv_start"
    /\ \/ /\ pc' = "pv_flip"
          /\ UNCHANGED <<exc, outcome>>
       \/ /\ exc' = "probe"
          /\ outcome' = "raised"
          /\ pc' = "done"
    /\ UNCHANGED <<inputVars, genVars, poolVars, stickerVars, writeVars,
                   encVars, fileVars, audioVars, pureVars>>

\* The parameter is drawn a second time.
resolved_again(log, name) == Append(Append(log, name), name)

\* One random draw of a run parameter (lines 1695 and 1701).
resolved(log, name) == Append(log, name)

\* Lines 1693-1696: with enable_random_flip the flip direction is drawn
\* and written to config.flip_horizontal.
process_video_random_flip ==
    /\ pc = "pv_flip"
    /\ IF config.enable_random_flip
          THEN /\ \E flip \in BOOLEAN :
                     config' = [config EXCEPT !.flip_horizontal = flip]
               /\ rolled' = resolved(rolled, "flip_horizontal")
          ELSE UNCHANGED rollVars
    /\ pc' = "pv_rolls"
    /\ UNCHANGED <<total_frames, batch_size, max_workers, has_audio, exc,
                   outcome, genVars, poolVars, stickerVars, writeVars, encVars,
                   fileVars, audioVars, pureVars>>

\* Lines 1698-1702: speed_factor is 1.0, or with enable_speed_change a
\* value random.uniform draws from speed_change_range, once for the run.
process_video_speed_factor ==
    /\ pc = "pv_rolls"
    /\ IF config.enable_speed_change
          THEN /\ speed_factor' \in {config.speed_change_range[1],
                                     config.speed_change_range[2]}
               /\ rolled' = resolved(rolled, "speed_factor")
          ELSE /\ speed_factor' = 1000
               /\ UNCHANGED rolled
    /\ pc' = "pv_subtitles"
    /\ UNCHANGED <<config, total_frames, batch_size, max_workers, has_audio,
                   exc, outcome, genVars, poolVars, stickerVars,
                   writeVars, encVars, fileVars, audio_stream,
                   processed_audio_path, atempo, audio_log, enc_r, pureVars>>

\* Lines 1713-1731: ffmpeg.probe reads the duration, or raises. With
\* subtitles wanted, the video longer than subtitles_duration and
\* use_whisper, SubtitleHandler.generate_subtitles (lines 738-760)
\* transcribes, creates the .srt file (NamedTemporaryFile(delete=False)),
\* writes it and returns its path, which is appended to temp_files; any
\* failure is re-raised, before the file exists or after.
process_video_subtitles ==
    /\ pc = "pv_subtitles"
    /\ \/ /\ Raise("duration")
          /\ UNCHANGED fileVars
       \/ /\ pc' = "pv_audio"
          /\ UNCHANGED <<exc, outcome, fileVars>>
       \/ /\ config.include_subtitles /\ config.use_whisper
          /\ \/ /\ files' = files \cup {"srt"}
                /\ temp_files' = Append(temp_files, "srt")
                /\ pc' = "pv_audio"
                /\ UNCHANGED <<exc, outcome>>
             \/ /\ \E made \in BOOLEAN :
                      files' = IF made THEN files \cup {"srt"} ELSE files
                /\ Raise("subtitles")
                /\ UNCHANGED temp_files
    /\ UNCHANGED <<inputVars, genVars, poolVars, stickerVars, writeVars,
                   encVars, audioVars, pureVars>>

\* An audio stream: the file it is read from and the factor of the atempo
\* filter on it, 0 for none. An entry of audio_log: the stage, the stream
\* it was given and the stream it handed on.
Stream(file, tempo) == [file |-> file, atempo |-> tempo]
Plain(file) == Stream(file, 0)
Stage(name, given, handed) ==
    [stage |-> name, input |-> given, output |-> handed]

\* The mix is made over the extracted audio, not over the processed one.
mix_bgm_original_extracted == "audio"

\* Line 1748: the first argument of mix_bgm, processed_audio_path.
mix_bgm_original == processed_audio_path

\* Lines 1734-1737: audio_path = mktemp() is appended to temp_files; with
\* an audio track, ffmpeg extracts it to that path, or fails (ffmpeg.Error)
\* with or without the file written. Without an audio track the audio
\* stages are skipped.
process_video_extract_audio ==
    /\ pc = "pv_audio"
    /\ temp_files' = Append(temp_files, "audio")
    /\ IF has_audio
          THEN \/ /\ files' = files \cup {"audio"}
                  /\ pc' = "pv_silence"
                  /\ UNCHANGED <<exc, outcome>>
               \/ /\ \E made \in BOOLEAN :
                        files' = IF made THEN files \cup {"audio"} ELSE files
                  /\ Raise("extract_audio")
          ELSE /\ pc' = "wf_first"
               /\ UNCHANGED <<exc, outcome, files>>
    /\ UNCHANGED <<inputVars, genVars, poolVars, stickerVars, writeVars,
                   encVars, audioVars, pureVars>>

\* AudioHandler.remove_silence (lines 507-540) and line 1739. Disabled, or
\* no non-silent chunk: the input path is returned. Otherwise the result is
\* exported to a new mktemp() path; an exception, before the export has
\* created the file or after, is re-raised. The returned path is appended
\* to temp_files.
remove_silence ==
    /\ pc = "pv_silence"
    /\ \/ /\ ~config.enable_silence_check
          /\ processed_audio_path' = "audio"
          /\ temp_files' = Append(temp_files, "audio")
          /\ audio_log' = Append(audio_log, Stage("remove_silence",
                                      Plain("audio"), Plain("audio")))
          /\ pc' = "pv_disrupt"
          /\ UNCHANGED <<exc, outcome, files>>
       \/ /\ config.enable_silence_check
          /\ \/ /\ processed_audio_path' = "audio"
                /\ temp_files' = Append(temp_files, "audio")
                /\ audio_log' = Append(audio_log, Stage("remove_silence",
                                            Plain("audio"), Plain("audio")))
                /\ pc' = "pv_disrupt"
                /\ UNCHANGED <<exc, outcome, files>>
             \/ /\ files' = files \cup {"silence"}
                /\ processed_audio_path' = "silence"
                /\ temp_files' = Append(temp_files, "silence")
                /\ audio_log' = Append(audio_log, Stage("remove_silence",
                                            Plain("audio"), Plain("silence")))
                /\ pc' = "pv_disrupt"
                /\ UNCHANGED <<exc, outcome>>
             \/ /\ \E made \in BOOLEAN :
                      files' = IF made THEN files \cup {"silence"} ELSE files
                /\ Raise("remove_silence")
                /\ UNCHANGED <<processed_audio_path, temp_files, audio_log>>
    /\ UNCHANGED <<inputVars, genVars, poolVars, stickerVars, writeVars,
                   encVars, audio_stream, speed_factor, atempo, enc_r,
                   pureVars>>

\* AudioFingerprintDisruptor.disrupt_audio (lines 647-732) and lines
\* 1742-1745. Enabled: the result is exported to a new mktemp() path and
\* that path is returned; on any exception, before the export has created
\* the file or after, the handler logs and returns the input path. The
\* returned path is appended to temp_files.
disrupt_audio ==
    /\ pc = "pv_disrupt"
    /\ \/ /\ ~config.enable_audio_fingerprint_disrupt
          /\ UNCHANGED <<files, temp_files, processed_audio_path>>
       \/ /\ config.enable_audio_fingerprint_disrupt
          /\ \/ /\ files' = files \cup {"disrupt"}
                /\ temp_files' = Append(temp_files, "disrupt")
                /\ processed_audio_path' = "disrupt"
             \/ /\ \E made \in BOOLEAN :
                      files' = IF made THEN files \cup {"disrupt"} ELSE files
                /\ temp_files' = Append(temp_files, processed_audio_path)
                /\ UNCHANGED processed_audio_path
    /\ audio_log' = Append(audio_log, Stage("disrupt_audio",
                                Plain(processed_audio_path),
                                Plain(processed_audio_path')))
    /\ pc' = "pv_bgm"
    /\ UNCHANGED <<inputVars, exc, outcome, genVars, poolVars, stickerVars,
                   writeVars, encVars, audio_stream, speed_factor, atempo,
                   enc_r, pureVars>>

\* AudioHandler.mix_bgm (lines 543-568) and lines 1747-1752. With
\* background music the mix is exported to a new mktemp() path, which is
\* appended to temp_files and becomes the encoder's audio input; an
\* exception, before the export has created the file or after, is
\* re-raised. Without, the processed audio is the encoder's audio input.
mix_bgm ==
    /\ pc = "pv_bgm"
    /\ \/ /\ ~config.include_background_music
          /\ audio_stream' = processed_audio_path
          /\ audio_log' = Append(audio_log, Stage("mix_bgm",
                                      Plain(processed_audio_path),
                                      Plain(processed_audio_path)))
          /\ pc' = "pv_tempo"
          /\ UNCHANGED <<exc, outcome, files, temp_files>>
       \/ /\ config.include_background_music
          /\ \/ /\ files' = files \cup {"bgm"}
                /\ temp_files' = Append(temp_files, "bgm")
                /\ audio_stream' = "bgm"
                /\ audio_log' = Append(audio_log, Stage("mix_bgm",
                                            Plain(mix_bgm_original),
                                            Plain("bgm")))
                /\ pc' = "pv_tempo"
                /\ UNCHANGED <<exc, outcome>>
             \/ /\ \E made \in BOOLEAN :
                      files' = IF made THEN files \cup {"bgm"} ELSE files
                /\ Raise("mix_bgm")
                /\ UNCHANGED <<temp_files, audio_stream, audio_log>>
    /\ UNCHANGED <<inputVars, genVars, poolVars, stickerVars, writeVars,
                   encVars, processed_audio_path, speed_factor, atempo,
                   enc_r, pureVars>>

\* Lines 1754-1760: with a speed factor other than 1.0 the atempo filter
\* with that factor is put on the audio stream; if that raises, a warning
\* is logged and the stream stays as it was.
process_video_atempo ==
    /\ pc = "pv_tempo"
    /\ IF speed_factor # 1000
          THEN atempo' \in {speed_factor, atempo}
          ELSE atempo' = atempo
    /\ audio_log' = Append(audio_log, Stage("atempo",
                                Stream(audio_stream, atempo),
                                Stream(audio_stream, atempo')))
    /\ pc' = "wf_first"
    /\ UNCHANGED <<inputVars, exc, outcome, genVars, poolVars, stickerVars,
                   writeVars, encVars, fileVars, audio_stream,
                   processed_audio_path, speed_factor, enc_r, pureVars>>

\* ------------------------------------------------------------ the inputs
\* Every feature off.
BaseConfig ==
    [enable_frame_swap |-> FALSE, frame_swap_interval |-> 2,
     enable_sticker |-> FALSE, sticker_change_interval |-> StickerInterval,
     enable_timeline_randomize |-> FALSE,
     add_intro_frames |-> 0, add_outro_frames |-> 0,
     frame_drop_ratio |-> 0, frame_duplicate_ratio |-> 0,
     enable_metadata_clean |-> FALSE,
     include_subtitles |-> FALSE, use_whisper |-> TRUE,
     enable_silence_check |-> FALSE,
     enable_audio_fingerprint_disrupt |-> FALSE,
     include_background_music |-> FALSE,
     enable_speed_change |-> FALSE,
     enable_random_flip |-> FALSE, flip_horizontal |-> FALSE,
     speed_change_range |-> <<1050, 1150>>]

\* The configurations the frame pipeline is run with: one family of
\* features varied at a time, the others off. The ratios are in
\* thousandths: only their sign is read.
StickerConfigs ==
    {[BaseConfig EXCEPT !.enable_sticker = TRUE,
                        !.sticker_change_interval = iv] :
        iv \in {0, StickerInterval}}

TimelineConfigs ==
    {[BaseConfig EXCEPT
        !.enable_timeline_randomize = TRUE,
        !.add_intro_frames = intro, !.add_outro_frames = outro,
        !.frame_drop_ratio = drop, !.frame_duplicate_ratio = dup] :
        intro \in {0, MaxIntro}, outro \in {0, MaxIntro},
        drop \in {0, 3}, dup \in {0, 2}}

\* The timeline fields at their values with the randomization switched off.
TimelineOffConfigs ==
    {[BaseConfig EXCEPT
        !.add_intro_frames = MaxIntro, !.add_outro_frames = MaxIntro,
        !.frame_drop_ratio = 3, !.frame_duplicate_ratio = 2]}

SwapConfigs ==
    {[BaseConfig EXCEPT !.enable_frame_swap = TRUE,
                        !.frame_swap_interval = k] : k \in 1..MaxInterval}

MetaConfigs == {[BaseConfig EXCEPT !.enable_metadata_clean = TRUE]}

\* enable_random_flip overrides the configured flip_horizontal.
FlipConfigs ==
    {[BaseConfig EXCEPT !.enable_random_flip = TRUE,
                        !.flip_horizontal = flip] : flip \in BOOLEAN}

\* speed_change_range in thousandths: the default (line 47) and a range
\* that holds 1.0.
SpeedConfigs ==
    {[BaseConfig EXCEPT !.enable_speed_change = TRUE,
                        !.speed_change_range = rg] :
        rg \in {<<1050, 1150>>, <<1000, 1100>>}}

FrameConfigs ==
    {BaseConfig} \cup StickerConfigs \cup TimelineConfigs \cup SwapConfigs
        \cup MetaConfigs \cup SpeedConfigs \cup FlipConfigs
        \cup TimelineOffConfigs

AudioConfigs ==
    {[BaseConfig EXCEPT
        !.include_subtitles = subs,
        !.enable_silence_check = sil,
        !.enable_audio_fingerprint_disrupt = dis,
        !.include_background_music = bgm,
        !.enable_metadata_clean = meta,
        !.enable_speed_change = speed] :
        subs \in BOOLEAN, sil \in BOOLEAN, dis \in BOOLEAN, bgm \in BOOLEAN,
        meta \in BOOLEAN, speed \in BOOLEAN}

InitRun ==
    /\ pc = "pv_start"
    /\ rolled = <<>>
    /\ exc = "none"
    /\ outcome = "running"
    /\ site = "first"
    /\ gen_state = "fresh"
    /\ next_idx = 0
    /\ batch = <<>>
    /\ tasks = <<>>
    /\ done_order = <<>>
    /\ processed_batch = <<>>
    /\ yield_i = 0
    /\ emitted = <<>>
    /\ sticker_cache = NoSticker
    /\ stickers_used = {}
    /\ cur = NoFrame
    /\ first_frame = NoFrame
    /\ last_frame = NoFrame
    /\ loop_i = 0
    /\ written = <<>>
    /\ frame_count = 0
    /\ dropped_count = 0
    /\ duplicated_count = 0
    /\ encoder = "none"
    /\ enc_rc = 0
    /\ stdin_open = FALSE
    /\ files = {}
    /\ temp_files = <<>>
    /\ audio_stream = NoFile
    /\ processed_audio_path = NoFile
    /\ speed_factor = 1000
    /\ atempo = 0
    /\ audio_log = <<>>
    /\ enc_r = 0

PureIdle ==
    /\ fr = <<>>
    /\ sw = <<>>
    /\ au = <<>>
    /\ wm = <<>>
    /\ vc = <<>>
    /\ drv = <<>>

Init ==
    /\ InitRun
    /\ PureIdle
    /\ batch_size \in 1..MaxBatch
    /\ max_workers \in 1..MaxWorkers
    /\ \/ /\ has_audio = FALSE
          /\ config \in FrameConfigs
          /\ total_frames \in 0..MaxFrames
       \/ /\ has_audio = TRUE
          /\ config \in AudioConfigs
          /\ total_frames \in 1..2

Next ==
    \/ process_video_probe
    \/ process_video_random_flip
    \/ process_video_speed_factor
    \/ process_video_subtitles
    \/ process_video_extract_audio
    \/ remove_silence
    \/ disrupt_audio
    \/ mix_bgm
    \/ process_video_atempo
    \/ write_frames_first
    \/ process_frames_resume
    \/ process_frames_read
    \/ process_batch_submit
    \/ \E i \in 1..Len(tasks) : worker_start(i)
    \/ \E i \in 1..Len(tasks) : process_single_frame_effects(i)
    \/ \E i \in 1..Len(tasks) : apply_sticker_get(i)
    \/ \E i \in 1..Len(tasks) : apply_sticker_check(i)
    \/ \E i \in 1..Len(tasks) : apply_sticker_write(i)
    \/ \E i \in 1..Len(tasks) : apply_sticker_read(i)
    \/ \E i \in 1..Len(tasks) : process_single_frame_return(i)
    \/ process_batch_return
    \/ process_frames_yield
    \/ write_frames_spawn
    \/ write_frames_intro
    \/ write_frames_write_first
    \/ write_frames_loop
    \/ write_frames_body
    \/ write_frames_dup
    \/ write_frames_outro
    \/ write_frames_close
    \/ write_frames_wait
    \/ clean_metadata_run
    \/ clean_metadata_end
    \/ process_video_finally

Spec == Init /\ [][Next]_vars

\* ===================================================== get_original_idx
\* The inputs of the remap: frame_swap_interval as validate accepts it
\* (an integer >= 1, lines 339-340), the frame count, an output index the
\* swapped generator asks for (output_idx < total_frames), and
\* enable_frame_swap.
SwapInputs ==
    {[stage |-> "in", interval |-> k, total |-> t, idx |-> i, enable |-> e,
      out |-> -1, back |-> -1] :
        k \in 1..MaxInterval, t \in 1..MaxTotal, i \in 0..(MaxTotal - 1),
        e \in BOOLEAN}

\* The main run's variables while a pure function is examined.
IdleRun ==
    /\ InitRun
    /\ config = BaseConfig
    /\ total_frames = 0
    /\ batch_size = 1
    /\ max_workers = 1
    /\ has_audio = FALSE

InitSwap ==
    /\ IdleRun
    /\ fr = <<>>
    /\ au = <<>>
    /\ wm = <<>>
    /\ vc = <<>>
    /\ drv = <<>>
    /\ sw \in {x \in SwapInputs : x.idx < x.total}

\* original_idx = get_original_idx(output_idx, interval, total_frames).
swap_remap ==
    /\ sw.stage = "in"
    /\ sw' = [sw EXCEPT !.stage = "once",
                        !.out = get_original_idx(sw.idx, sw.interval,
                                                 sw.total, sw.enable)]
    /\ UNCHANGED <<inputVars, ctlVars, genVars, poolVars, stickerVars,
                   writeVars, encVars, fileVars, audioVars, fr, au, wm,
                   vc, drv>>

\* The remap applied to its own result.
swap_remap_again ==
    /\ sw.stage = "once"
    /\ sw' = [sw EXCEPT !.stage = "twice",
                        !.back = get_original_idx(sw.out, sw.interval,
                                                  sw.total, sw.enable)]
    /\ UNCHANGED <<inputVars, ctlVars, genVars, poolVars, stickerVars,
                   writeVars, encVars, fileVars, audioVars, fr, au, wm,
                   vc, drv>>

NextSwap ==
    \/ swap_remap
    \/ swap_remap_again

SpecSwap == InitSwap /\ [][NextSwap]_vars

\* ================================================ _process_single_frame
\* The raster through _process_single_frame: its shape, whether its pixels
\* are still those of the decoded frame, and the steps applied to it.
\* A shape is [h |-> rows, w |-> columns].

\* rotate_frame (lines 1112-1116): cv2.warpAffine with dsize (w, h).
rotate_frame(shape, rotation_angle) ==
    IF rotation_angle # 0 THEN [h |-> shape.h, w |-> shape.w] ELSE shape

\* int(orig * crop_percentage), crop_percentage in hundredths.
crop_margin(orig, crop_percentage) == (orig * crop_percentage) \div 100

\* Lines 1894-1898: crop_h rows off the top and the bottom, crop_w columns
\* off the left and the right, when that leaves something.
crop_frame(shape, orig_height, orig_width, crop_percentage) ==
    LET crop_h == crop_margin(orig_height, crop_percentage)
        crop_w == crop_margin(orig_width, crop_percentage)
    IN  IF crop_h + crop_h < shape.h /\ crop_w + crop_w < shape.w
           THEN [h |-> shape.h - crop_h - crop_h,
                 w |-> shape.w - crop_w - crop_w]
           ELSE shape

\* The frame goes on as the crop left it.
resize_back_skipped(shape, orig_height, orig_width) == shape

\* Lines 1901-1902: cv2.resize to (orig_width, orig_height) when the shape
\* differs from it.
resize_back(shape, orig_height, orig_width) ==
    IF shape.h # orig_height \/ shape.w # orig_width
       THEN [h |-> orig_height, w |-> orig_width]
       ELSE shape

\* The sticker is composited after the DCT perturbation.
EffectChain_sticker_last ==
    <<"adjust_sbc", "add_watermark", "add_subtitles", "add_titles",
      "add_hzh_effect", "color_shift", "blur_background", "scramble_phase",
      "add_texture_noise", "apply_edge_blur", "apply_gaussian_blur",
      "apply_fade_effect", "apply_hash_disruption", "apply_vignette",
      "apply_dynamic_border", "apply_dct_perturbation", "apply_sticker">>

\* Lines 1904-1925: the effects in call order.
EffectChain ==
    <<"adjust_sbc", "add_watermark", "add_subtitles", "add_titles",
      "add_hzh_effect", "color_shift", "blur_background", "scramble_phase",
      "add_texture_noise", "apply_edge_blur", "apply_gaussian_blur",
      "apply_fade_effect", "apply_hash_disruption", "apply_vignette",
      "apply_dynamic_border", "apply_sticker", "apply_dct_perturbation">>

AllEffects ==
    {"adjust_sbc", "add_watermark", "add_subtitles", "add_titles",
     "add_hzh_effect", "color_shift", "blur_background", "scramble_phase",
     "add_texture_noise", "apply_edge_blur", "apply_gaussian_blur",
     "apply_fade_effect", "apply_hash_disruption", "apply_vignette",
     "apply_dynamic_border", "apply_sticker", "apply_dct_perturbation"}

\* Lines 1905-1910: add_watermark, add_subtitles and add_titles are called
\* only with their include flag set (and, for subtitles, a loaded file);
\* the other effects are always called and test their flag themselves.
effect_called(effect, enabled) ==
    effect \notin {"add_watermark", "add_subtitles", "add_titles"}
        \/ effect \in enabled

\* The shape an effect returns. Every effect writes into the frame it was
\* given or builds an array of the same shape (PIL round trip, cv2.merge,
\* cv2.addWeighted); add_hzh_effect, when the inset does not fit, replaces
\* the frame by the inset resized to (w, h) (line 1239).
effect_shape(effect, shape) ==
    IF effect = "add_hzh_effect" THEN [h |-> shape.h, w |-> shape.w]
    ELSE shape

\* The first frame is faded whatever fade_in_frames is.
apply_fade_effect_first(frame_idx, total, fade_in_frames, fade_out_frames) ==
    IF frame_idx <= fade_in_frames THEN "changed" ELSE "unchanged"

\* apply_fade_effect (lines 1176-1182); the effect has no enabling flag.
\* Fade-in: alpha = frame_idx / fade_in_frames < 1. Fade-out: alpha =
\* (total_frames - frame_idx) / fade_out_frames, which is 1 on the first
\* frame of the fade-out and a division by zero with fade_out_frames = 0.
apply_fade_effect(frame_idx, total, fade_in_frames, fade_out_frames) ==
    IF frame_idx < fade_in_frames THEN "changed"
    ELSE IF frame_idx >= total - fade_out_frames
         THEN IF fade_out_frames = 0 THEN "raised"
              ELSE IF total - frame_idx = fade_out_frames THEN "unchanged"
              ELSE "changed"
    ELSE "unchanged"

\* int(size * percentage / 100): rows or columns of a blur region.
region_size(size, percentage) == (size * percentage) \div 100

\* blur_background (lines 1150-1160). cv2.GaussianBlur refuses an empty
\* array: with top = 0 the slice frame[:top] is empty, with side = 0 the
\* slice frame[:, :side]; with bottom = 0 the slice frame[-bottom:] is the
\* whole frame.
blur_background(f) ==
    IF "blur_background" \notin f.enabled THEN "unchanged"
    ELSE LET top == region_size(f.h, f.region_pct)
             bottom == region_size(f.h, f.region_pct)
             side == region_size(f.w, f.region_pct)
         IN  IF top = 0 THEN "raised"
             ELSE IF bottom = 0 THEN "changed"
             ELSE IF side = 0 THEN "raised"
             ELSE "changed"

\* apply_gaussian_blur (lines 1086-1098): nothing with interval 0 or on a
\* frame off the interval; otherwise four regions of blur_h rows or blur_w
\* columns are blurred, and an empty region is refused by cv2.GaussianBlur.
apply_gaussian_blur(f) ==
    IF f.gaussian_blur_interval = 0
          \/ f.frame_idx % f.gaussian_blur_interval # 0 THEN "unchanged"
    ELSE LET blur_h == region_size(f.h, f.region_pct)
             blur_w == region_size(f.w, f.region_pct)
         IN  IF blur_h = 0 \/ blur_w = 0 THEN "raised" ELSE "changed"

\* add_hzh_effect (lines 1220-1245): nothing without the flag or the file;
\* frame_idx % hzh_frame_count divides by zero for a file OpenCV reads no
\* frame count from.
add_hzh_effect(f) ==
    IF "add_hzh_effect" \notin f.enabled \/ f.hzh_file = "missing"
       THEN "unchanged"
    ELSE IF f.hzh_file = "no_frames" THEN "raised"
    ELSE "changed"

\* apply_dynamic_border (line 1457): nothing without the flag or with
\* border_width <= 0.
apply_dynamic_border(f) ==
    IF "apply_dynamic_border" \notin f.enabled \/ f.border_width <= 0
       THEN "unchanged"
    ELSE "changed"

\* What an effect does to the pixels of the frame f: every effect returns
\* the frame it was given when its flag is off (lines 1131, 1196, 1259,
\* 1295, 1320, 1341, 1417, 1520, 1607).
effect_result(effect, f) ==
    IF effect = "apply_fade_effect"
       THEN apply_fade_effect(f.frame_idx, f.total, f.fade_in_frames,
                              f.fade_out_frames)
    ELSE IF effect = "blur_background" THEN blur_background(f)
    ELSE IF effect = "apply_gaussian_blur" THEN apply_gaussian_blur(f)
    ELSE IF effect = "add_hzh_effect" THEN add_hzh_effect(f)
    ELSE IF effect = "apply_dynamic_border" THEN apply_dynamic_border(f)
    ELSE IF effect \in f.enabled THEN "changed"
    ELSE "unchanged"

\* crop_percentage values validate accepts (0 <= crop_percentage <= 0.5,
\* line 289), in hundredths.
CropPercentages == {0, 10, 25, 50}

\* A frame of the full raster with every effect off and every parameter
\* of an effect at a value that lets the effect work.
FrameBase ==
    [stage |-> "decoded", pos |-> 0, h |-> MaxDim, w |-> MaxDim,
     decoded_height |-> MaxDim, decoded_width |-> MaxDim,
     orig_height |-> MaxDim, orig_width |-> MaxDim, crop_percentage |-> 0,
     rotation_angle |-> 0, flip_horizontal |-> FALSE, cropped |-> FALSE,
     enabled |-> {}, frame_idx |-> 0, total |-> MaxFrames,
     fade_in_frames |-> 0, fade_out_frames |-> 0, region_pct |-> 50,
     gaussian_blur_interval |-> 0, hzh_file |-> "video", border_width |-> 1,
     applied |-> <<>>, pixels |-> "input", last |-> "none"]

\* The decoded frame has the shape OpenCV gives it; orig_height and
\* orig_width are the probed values of the source.
ShapeInputs ==
    {[FrameBase EXCEPT !.h = h, !.w = w, !.decoded_height = h,
                       !.decoded_width = w, !.orig_height = oh,
                       !.orig_width = ow, !.crop_percentage = c,
                       !.rotation_angle = r, !.enabled = AllEffects] :
        h \in 1..MaxDim, w \in 1..MaxDim, oh \in 1..MaxDim, ow \in 1..MaxDim,
        c \in CropPercentages, r \in {0, -3}}

\* No effect, one effect or every effect enabled, on any frame of the
\* video, with and without fades, flip, rotation and crop.
EffectInputs ==
    {[FrameBase EXCEPT !.enabled = en, !.frame_idx = i,
                       !.fade_in_frames = fi, !.fade_out_frames = fo,
                       !.flip_horizontal = fl, !.rotation_angle = r,
                       !.crop_percentage = c,
                       !.gaussian_blur_interval =
                           IF "apply_gaussian_blur" \in en THEN 1 ELSE 0] :
        en \in {{}, AllEffects} \cup {{e} : e \in AllEffects},
        i \in 0..(MaxFrames - 1), fi \in {0, 1}, fo \in {0, 1},
        fl \in BOOLEAN, r \in {0, -3}, c \in {0, 25}}

\* One effect enabled whose asset, interval, region size or border width
\* may be degenerate.
PreconditionInputs ==
    {[FrameBase EXCEPT !.enabled = {e}, !.region_pct = p,
                       !.gaussian_blur_interval = iv, !.hzh_file = a,
                       !.border_width = bw] :
        e \in {"blur_background", "apply_gaussian_blur", "add_hzh_effect",
               "apply_dynamic_border"},
        p \in {0, 50}, iv \in {0, 1},
        a \in {"missing", "no_frames", "video"}, bw \in {0, 1}}

FrameInputs == ShapeInputs \cup EffectInputs \cup PreconditionInputs

InitFrame ==
    /\ IdleRun
    /\ sw = <<>>
    /\ au = <<>>
    /\ wm = <<>>
    /\ vc = <<>>
    /\ drv = <<>>
    /\ fr \in FrameInputs

FrameIdle == UNCHANGED <<inputVars, ctlVars, genVars, poolVars, stickerVars,
                         writeVars, encVars, fileVars, audioVars, sw, au,
                         wm, vc, drv>>

Shape(f) == [h |-> f.h, w |-> f.w]

\* Lines 1887-1891: colour conversion (a reordering of the channels, undone
\* at line 1927), flip, rotate_frame.
single_frame_rotate ==
    /\ fr.stage = "decoded"
    /\ LET s == rotate_frame(Shape(fr), fr.rotation_angle) IN
       fr' = [fr EXCEPT !.stage = "rotated", !.h = s.h, !.w = s.w,
                        !.applied = Append(fr.applied, "rotate_frame"),
                        !.pixels = IF fr.flip_horizontal
                                        \/ fr.rotation_angle # 0
                                      THEN "changed" ELSE fr.pixels]
    /\ FrameIdle

\* Lines 1894-1898.
single_frame_crop ==
    /\ fr.stage = "rotated"
    /\ LET s == crop_frame(Shape(fr), fr.orig_height, fr.orig_width,
                           fr.crop_percentage) IN
       fr' = [fr EXCEPT !.stage = "cropped", !.h = s.h, !.w = s.w,
                        !.cropped = (s # Shape(fr)),
                        !.applied = Append(fr.applied, "crop"),
                        !.pixels = IF s # Shape(fr) THEN "changed"
                                   ELSE fr.pixels]
    /\ FrameIdle

\* Lines 1901-1902.
single_frame_resize ==
    /\ fr.stage = "cropped"
    /\ LET s == resize_back(Shape(fr), fr.orig_height, fr.orig_width) IN
       fr' = [fr EXCEPT !.stage = "effects", !.h = s.h, !.w = s.w,
                        !.applied = Append(fr.applied, "resize"),
                        !.pixels = IF s # Shape(fr) THEN "changed"
                                   ELSE fr.pixels]
    /\ FrameIdle

\* One effect of lines 1904-1925. An effect that is not called is passed
\* over. A called effect returns the frame unchanged, returns it changed,
\* or raises, and then _process_single_frame returns nothing; an effect
\* that works on the frame may also fail on it.
single_frame_effect ==
    /\ fr.stage = "effects"
    /\ fr.pos < Len(EffectChain)
    /\ LET effect == EffectChain[fr.pos + 1]
           s == effect_shape(effect, Shape(fr))
           res == effect_result(effect, fr)
       IN  IF ~effect_called(effect, fr.enabled)
              THEN fr' = [fr EXCEPT !.pos = fr.pos + 1, !.last = "none"]
              ELSE \E out \in (IF res = "changed" THEN {"changed", "raised"}
                               ELSE {res}) :
                      fr' = [fr EXCEPT
                               !.pos = fr.pos + 1,
                               !.applied = Append(fr.applied, effect),
                               !.last = out,
                               !.h = s.h, !.w = s.w,
                               !.stage = IF out = "raised" THEN "raised"
                                         ELSE fr.stage,
                               !.pixels = IF out = "changed" THEN "changed"
                                          ELSE fr.pixels]
    /\ FrameIdle

\* return (frame_idx, cv2.cvtColor(frame, cv2.COLOR_RGB2BGR)) (line 1927).
single_frame_return ==
    /\ fr.stage = "effects"
    /\ fr.pos = Len(EffectChain)
    /\ fr' = [fr EXCEPT !.stage = "returned", !.last = "none"]
    /\ FrameIdle

NextFrame ==
    \/ single_frame_rotate
    \/ single_frame_crop
    \/ single_frame_resize
    \/ single_frame_effect
    \/ single_frame_return

SpecFrame == InitFrame /\ [][NextFrame]_vars

\* ========================================== remove_silence, disrupt_audio
\* The audio of remove_silence is a sequence of ticks of 100 ms, TRUE where
\* the level is above silence_threshold. silent_duration is counted in
\* ticks, silence_retention_ratio in percent.
KeepSilence == 1

Abs(n) == IF n < 0 THEN -n ELSE n

\* pydub's detect_silence: a tick is silent when it lies in a run of ticks
\* at or below the threshold that lasts min_silence_len or longer.
InSilence(audio, t, min_silence_len) ==
    \E a \in 1..t, b \in t..Len(audio) :
        /\ b - a + 1 >= min_silence_len
        /\ \A i \in a..b : ~audio[i]

NonSilent(audio, min_silence_len) ==
    {t \in 1..Len(audio) : ~InSilence(audio, t, min_silence_len)}

\* pydub's split_on_silence with its default keep_silence of 100 ms (line
\* 523 passes none): one chunk per run of non-silent ticks, widened by
\* keep_silence on both sides, cut at the ends of the audio and at the
\* midpoint where two widened chunks would overlap. The record holds how
\* many chunks there are and how long they are together.
split_on_silence(audio, min_silence_len) ==
    LET loud == NonSilent(audio, min_silence_len)
    IN  [chunks |-> Cardinality({t \in loud : (t - 1) \notin loud}),
         duration |-> Cardinality({t \in 1..Len(audio) :
                          \E u \in loud : Abs(t - u) <= KeepSilence})]

\* Lines 523-537: the length of the audio remove_silence exports, or of
\* its input when there is no chunk (lines 525-527). After every chunk,
\* the last one included, silence of int(silent_duration *
\* silence_retention_ratio) is appended when the ratio is positive.
remove_silence_len(audio, silent_duration, retention_pct) ==
    LET split == split_on_silence(audio, silent_duration)
        silence_duration == (silent_duration * retention_pct) \div 100
    IN  IF split.chunks = 0
           THEN Len(audio)
           ELSE split.duration
                + (IF retention_pct > 0
                      THEN split.chunks * silence_duration
                      ELSE 0)

RECURSIVE Signals(_)
Signals(n) ==
    IF n = 0 THEN {<<>>}
    ELSE {Append(s, b) : s \in Signals(n - 1), b \in BOOLEAN}

\* validate accepts silence_retention_ratio in [0, 1] (lines 263-264) and
\* a non-negative integer silent_duration (lines 265-266); the inputs are
\* those whose retained silence is a whole number of ticks.
SilenceInputs ==
    {x \in [kind : {"silence"}, stage : {"in"},
            audio : UNION {Signals(n) : n \in 1..MaxAudio},
            silent_duration : 1..MaxSilent,
            retention_pct : {0, 50, 100}, out_len : {-1}] :
        (x.silent_duration * x.retention_pct) % 100 = 0}

\* Line 677: set_frame_rate(44100).
TargetRate == 44100

\* Line 669: pitch_factor = 2 ** (semitones / 12.0), in thousandths, for
\* pitch_shift_semitones of 0.3 (the default, line 150) and of 1, given in
\* tenths of a semitone, and both values of shift_direction (line 667).
pitch_factor(tenths, shift_direction) ==
    CASE tenths = 3 /\ shift_direction = 1 -> 1017
      [] tenths = 3 /\ shift_direction = -1 -> 983
      [] tenths = 10 /\ shift_direction = 1 -> 1059
      [] tenths = 10 /\ shift_direction = -1 -> 944
      [] OTHER -> 1000

\* pydub's len(audio): round(1000 * frame_count / frame_rate) milliseconds.
duration_ms(frames, frame_rate) ==
    (2000 * frames + frame_rate) \div (2 * frame_rate)

\* Line 672: new_sample_rate = int(audio.frame_rate * pitch_factor).
new_sample_rate(frame_rate, tenths, shift_direction) ==
    (frame_rate * pitch_factor(tenths, shift_direction)) \div 1000

\* pydub's set_frame_rate: the same segment when the rate is already the
\* wanted one, else the frames converted to the wanted rate, which keeps
\* the playing time: frame_count * rate / frame_rate frames.
set_frame_rate(frames, frame_rate, rate) ==
    IF frame_rate = rate
       THEN frames
       ELSE (frames \div frame_rate) * rate
            + ((frames % frame_rate) * rate) \div frame_rate

\* The extracted .wav of a whole number of seconds at a usual rate.
PitchInputs ==
    {[kind |-> "pitch", stage |-> "in", frame_rate |-> r,
      frame_count |-> r * secs, pitch_shift_semitones |-> t,
      shift_direction |-> d, before_ms |-> duration_ms(r * secs, r)] :
        r \in {22050, 44100}, secs \in 1..MaxSeconds,
        t \in {0, 3, 10}, d \in {1, -1}}

InitAudio ==
    /\ IdleRun
    /\ fr = <<>>
    /\ sw = <<>>
    /\ wm = <<>>
    /\ vc = <<>>
    /\ drv = <<>>
    /\ au \in SilenceInputs \cup PitchInputs

AudioIdle == UNCHANGED <<inputVars, ctlVars, genVars, poolVars, stickerVars,
                         writeVars, encVars, fileVars, audioVars, fr, sw,
                         wm, vc, drv>>

\* remove_silence with enable_silence_check set, lines 521-537.
audio_remove_silence ==
    /\ au.kind = "silence"
    /\ au.stage = "in"
    /\ au' = [au EXCEPT !.stage = "exported",
                        !.out_len = remove_silence_len(au.audio,
                                        au.silent_duration, au.retention_pct)]
    /\ AudioIdle

\* Lines 665-675: with pitch_shift_semitones > 0 the same frames get the
\* new sample rate; with 0 the step is skipped.
audio_pitch_spawn ==
    /\ au.kind = "pitch"
    /\ au.stage = "in"
    /\ IF au.pitch_shift_semitones > 0
          THEN au' = [au EXCEPT !.stage = "spawned",
                        !.frame_rate = new_sample_rate(au.frame_rate,
                            au.pitch_shift_semitones, au.shift_direction)]
          ELSE au' = [au EXCEPT !.stage = "shifted"]
    /\ AudioIdle

\* Line 677: audio = audio.set_frame_rate(44100).
audio_pitch_set_frame_rate ==
    /\ au.kind = "pitch"
    /\ au.stage = "spawned"
    /\ au' = [au EXCEPT !.stage = "shifted",
                        !.frame_rate = TargetRate,
                        !.frame_count = set_frame_rate(au.frame_count,
                                            au.frame_rate, TargetRate)]
    /\ AudioIdle

NextAudio ==
    \/ audio_remove_silence
    \/ audio_pitch_spawn
    \/ audio_pitch_set_frame_rate

SpecAudio == InitAudio /\ [][NextAudio]_vars

\* ================================================ get_watermark_position
\* Line 891: MARGIN = 20.
MARGIN == 20

\* The source of the scenario: its frame count and its width and height.
WmFrames == 100
WmSide == 1000

\* int(range * progress) with progress = frame_index / total_frames (lines
\* 898 and 905), for a range that is not negative.
travelled(range, frame_index, total) == (range * frame_index) \div total

\* get_watermark_position (lines 891-932) for every direction but
\* 'random': <<x, y>>, for a video of vw x vh and a watermark of ww x wh.
get_watermark_position(direction, frame_index, total, vw, vh, ww, wh) ==
    LET range_x == vw - ww - 2 * MARGIN
        range_y == vh - wh - 2 * MARGIN
        go_x == travelled(range_x, frame_index, total)
        go_y == travelled(range_y, frame_index, total)
        right == MARGIN + go_x
        left == vw - MARGIN - ww - go_x
        down == MARGIN + go_y
        up == vh - MARGIN - wh - go_y
        mid_x == (vw - ww) \div 2
        mid_y == (vh - wh) \div 2
    IN  CASE direction = "left_to_right" -> <<right, mid_y>>
          [] direction = "right_to_left" -> <<left, mid_y>>
          [] direction = "top_to_bottom" -> <<mid_x, down>>
          [] direction = "bottom_to_top" -> <<mid_x, up>>
          [] direction = "lt_to_rb" -> <<right, down>>
          [] direction = "rt_to_lb" -> <<left, down>>
          [] direction = "lb_to_rt" -> <<right, up>>
          [] direction = "rb_to_lt" -> <<left, up>>
          [] OTHER -> <<mid_x, mid_y>>

Directions ==
    {"left_to_right", "right_to_left", "top_to_bottom", "bottom_to_top",
     "lt_to_rb", "rt_to_lb", "lb_to_rt", "rb_to_lt", "center"}

\* The first and the last frame of the source, and every watermark that
\* fits between the margins.
WatermarkInputs ==
    [stage : {"in"}, direction : Directions,
     frame_index : {0, WmFrames - 1}, total : {WmFrames},
     video_width : {WmSide}, video_height : {WmSide},
     watermark_width : 1..(WmSide - 2 * MARGIN),
     watermark_height : {1, WmSide - 2 * MARGIN},
     x : {-1}, y : {-1}]

InitWatermark ==
    /\ IdleRun
    /\ fr = <<>>
    /\ sw = <<>>
    /\ au = <<>>
    /\ vc = <<>>
    /\ drv = <<>>
    /\ wm \in WatermarkInputs

\* x, y = VideoEffects.get_watermark_position(...), lines 798 and 825.
watermark_position ==
    /\ wm.stage = "in"
    /\ LET p == get_watermark_position(wm.direction, wm.frame_index,
                    wm.total, wm.video_width, wm.video_height,
                    wm.watermark_width, wm.watermark_height)
       IN  wm' = [wm EXCEPT !.stage = "placed", !.x = p[1], !.y = p[2]]
    /\ UNCHANGED <<inputVars, ctlVars, genVars, poolVars, stickerVars,
                   writeVars, encVars, fileVars, audioVars, fr, sw, au, vc,
                   drv>>

NextWatermark == watermark_position

SpecWatermark == InitWatermark /\ [][NextWatermark]_vars

\* ==================================================== VideoConfig.validate
\* A path field is empty, names a file that does not exist, or names one
\* that does: os.path.exists(path).
Paths == {"", "missing", "present"}
exists(path) == path = "present"

\* The loop of lines 435-437 over paths_to_check (lines 427-434): a path
\* that is not empty and does not exist raises.
RECURSIVE check_paths(_)
check_paths(paths) ==
    IF paths = <<>> THEN "accepted"
    ELSE IF Head(paths) # "" /\ ~exists(Head(paths))
         THEN "FileNotFoundError"
    ELSE check_paths(Tail(paths))

\* The checks of validate that look at the file system, in their order
\* (lines 243-246, 251, 271, 305, 426-437); every other check passes.
validate(c) ==
    IF c.watermark_type = "image" /\ ~exists(c.watermark_image_path)
       THEN "FileNotFoundError"
    ELSE IF c.watermark_type = "video" /\ ~exists(c.watermark_video_path)
       THEN "FileNotFoundError"
    ELSE IF c.custom_font_enabled /\ ~exists(c.font_file)
       THEN "FileNotFoundError"
    ELSE IF c.include_background_music /\ ~exists(c.background_music_file)
       THEN "FileNotFoundError"
    ELSE IF c.include_hzh /\ ~exists(c.hzh_video_file)
       THEN "FileNotFoundError"
    ELSE check_paths(<<c.background_music_file, c.subtitles_file, c.font_file,
                       IF c.include_hzh THEN c.hzh_video_file ELSE "",
                       IF c.watermark_type = "image"
                          THEN c.watermark_image_path ELSE "",
                       IF c.watermark_type = "video"
                          THEN c.watermark_video_path ELSE "">>)

\* The Configs validate is given: every feature that owns a file either
\* way, with its path empty, missing or present. The path of the
\* watermark kind that is not chosen is left empty.
ValidateInputs ==
    {c \in [stage : {"in"}, result : {"pending"},
            include_watermark : BOOLEAN,
            watermark_type : {"text", "image", "video"},
            watermark_image_path : Paths, watermark_video_path : Paths,
            custom_font_enabled : BOOLEAN, font_file : Paths,
            include_background_music : BOOLEAN,
            background_music_file : Paths,
            include_subtitles : BOOLEAN, subtitles_file : Paths,
            include_hzh : BOOLEAN, hzh_video_file : Paths] :
        /\ c.watermark_type # "image" => c.watermark_image_path = ""
        /\ c.watermark_type # "video" => c.watermark_video_path = ""}

InitValidate ==
    /\ IdleRun
    /\ fr = <<>>
    /\ sw = <<>>
    /\ au = <<>>
    /\ wm = <<>>
    /\ drv = <<>>
    /\ vc \in ValidateInputs

\* VideoHandler.__init__, line 1654: self.config.validate().
handler_init_validate ==
    /\ vc.stage = "in"
    /\ vc' = [vc EXCEPT !.stage = "validated", !.result = validate(vc)]
    /\ UNCHANGED <<inputVars, ctlVars, genVars, poolVars, stickerVars,
                   writeVars, encVars, fileVars, audioVars, fr, sw, au, wm,
                   drv>>

NextValidate == handler_init_validate

SpecValidate == InitValidate /\ [][NextValidate]_vars

\* ============================= standalone_dedup: process_all_videos
\* The driver's state: the number of unprocessed .mp4 files found, the
\* video the loop is at (from 1), where it is in process_single_video,
\* the videos whose process_video returned or raised, the processed log
\* as the videos appended to it, and the two counters.
DriverStart ==
    [pc |-> "find", found |-> 0, i |-> 0, returned |-> {}, raised |-> {},
     log |-> <<>>, success_count |-> 0, fail_count |-> 0]

InitDriver ==
    /\ IdleRun
    /\ fr = <<>>
    /\ sw = <<>>
    /\ au = <<>>
    /\ wm = <<>>
    /\ vc = <<>>
    /\ drv = DriverStart

DriverIdle == UNCHANGED <<inputVars, ctlVars, genVars, poolVars, stickerVars,
                          writeVars, encVars, fileVars, audioVars, fr, sw, au,
                          wm, vc>>

\* The loop stops at the first video that fails.
next_video_stop(i, found) == found + 1

\* for i, video_file in enumerate(mp4_files, 1) (line 197): the next video,
\* whatever the last one did.
next_video(i, found) == i + 1

\* A video is counted as failed: process_single_video returned False
\* (lines 202-205) or raised (lines 206-208).
Failed(d) ==
    [d EXCEPT !.fail_count = d.fail_count + 1,
              !.i = next_video(d.i, d.found),
              !.pc = "loop"]

\* Lines 183-195: find_all_mp4_files; with no file process_all_videos
\* returns, otherwise the counters start at 0.
driver_find ==
    /\ drv.pc = "find"
    /\ \E n \in 0..MaxVideos :
          drv' = [drv EXCEPT !.found = n, !.i = 1,
                             !.pc = IF n = 0 THEN "ended" ELSE "loop"]
    /\ DriverIdle

\* Line 197: the loop takes the next video or has ended.
driver_loop ==
    /\ drv.pc = "loop"
    /\ drv' = [drv EXCEPT !.pc = IF drv.i <= drv.found THEN "mkdir"
                                                       ELSE "ended"]
    /\ DriverIdle

\* Lines 104-106: output_dir.mkdir is outside the try block of
\* process_single_video; if it raises, process_all_videos catches it.
driver_mkdir ==
    /\ drv.pc = "mkdir"
    /\ \/ drv' = [drv EXCEPT !.pc = "process"]
       \/ drv' = Failed(drv)
    /\ DriverIdle

\* Lines 108-147: VideoHandler(dedup_config) and handler.process_video
\* return, or one of them raises and process_single_video returns False
\* (lines 155-163).
driver_process_video ==
    /\ drv.pc = "process"
    /\ \/ drv' = [drv EXCEPT !.returned = @ \cup {drv.i}, !.pc = "save"]
       \/ drv' = Failed([drv EXCEPT !.raised = @ \cup {drv.i}])
    /\ DriverIdle

\* Lines 152-153: _save_processed_file appends the path to the log and
\* process_single_video returns True; or opening the log raises, which
\* the same handler turns into False.
driver_save_processed_file ==
    /\ drv.pc = "save"
    /\ \/ drv' = [drv EXCEPT !.log = Append(@, drv.i),
                             !.success_count = @ + 1,
                             !.i = next_video(drv.i, drv.found),
                             !.pc = "loop"]
       \/ drv' = Failed(drv)
    /\ DriverIdle

NextDriver ==
    \/ driver_find
    \/ driver_loop
    \/ driver_mkdir
    \/ driver_process_video
    \/ driver_save_processed_file

SpecDriver == InitDriver /\ [][NextDriver]_vars

\* =============================================================== claims
StrictlyIncreasing(s) == \A i \in 1..(Len(s) - 1) : s[i].idx < s[i + 1].idx

\* C1: whenever _process_batch has returned, the list it returned holds
\* exactly one result for every frame of the batch it was given and its
\* frame indices are strictly increasing, in whatever order the workers
\* finished.
C1_BatchOneResultEachSorted ==
    pc = "pf_yield" =>
        /\ Len(processed_batch) = Len(batch)
        /\ Range(processed_batch) = Range(batch)
        /\ StrictlyIncreasing(processed_batch)

\* C1: a batch has been returned whose second frame finished first.
C1_FinishedOutOfOrder ==
    /\ pc = "pf_yield"
    /\ Len(processed_batch) >= 2
    /\ Len(done_order) >= 2
    /\ done_order[1] > done_order[2]

\* C2: over a whole run the frames _process_frames has yielded have
\* strictly increasing indices: a later batch's frames come after all
\* frames of the earlier batches.
C2_EmittedStrictlyIncreasing == StrictlyIncreasing(emitted)

\* C2: frames of a second batch have been yielded after a first batch of
\* two or more.
C2_SecondBatchEmitted ==
    /\ batch_size >= 2
    /\ Len(emitted) > batch_size

\* C3: when _process_frames ends, it has yielded every decoded frame
\* exactly once, index 0 up to the last, also when the frame count is no
\* multiple of batch_size.
C3_EveryFrameEmittedOnce ==
    gen_state = "done" =>
        /\ Len(emitted) = total_frames
        /\ \A i \in 1..Len(emitted) : emitted[i].idx = i - 1

\* C3: the stream has ended after a full batch and a smaller last batch.
C3_PartialLastBatchEmitted ==
    /\ gen_state = "done"
    /\ total_frames > batch_size
    /\ total_frames % batch_size # 0
    /\ Len(emitted) = total_frames

\* C4: the raster _process_single_frame returns has the probed height and
\* width of the source, for every crop_percentage validate accepts, every
\* rotation and every decoded shape.
C4_ReturnedShapeIsProbed ==
    fr.stage = "returned" => fr.h = fr.orig_height /\ fr.w = fr.orig_width

\* C4: a frame that was cropped to a smaller raster has been returned.
C4_CroppedFrameReturned ==
    /\ fr.stage = "returned"
    /\ fr.cropped
    /\ fr.crop_percentage > 0

\* C5: with frame swap enabled, for every interval k >= 1 and every n with
\* k*n+1 < total_frames, the remap sends k*n to k*n+1 and k*n+1 to k*n,
\* and the remap applied twice gives the index back.
C5_SwapIsInvolution ==
    (sw.stage = "twice" /\ sw.enable
        /\ \E n \in 0..sw.total :
              /\ sw.interval * n + 1 < sw.total
              /\ sw.idx \in {sw.interval * n, sw.interval * n + 1})
    => \E n \in 0..sw.total :
          /\ sw.interval * n + 1 < sw.total
          /\ \/ sw.idx = sw.interval * n /\ sw.out = sw.interval * n + 1
             \/ sw.idx = sw.interval * n + 1 /\ sw.out = sw.interval * n
          /\ sw.back = sw.idx

\* C6: an exception raised by an effect never leaves _process_batch: the
\* exception propagating in process_video is never one of an effect.
C6_EffectErrorContained == exc # "effect"

\* C7: with sticker switching disabled (sticker_change_interval = 0) all
\* frames of a run are composited with one and the same sticker index.
C7_OneStickerPerRun ==
    (config.enable_sticker /\ config.sticker_change_interval = 0)
        => Cardinality(stickers_used) <= 1

\* The temporary files of a run.
TempRoles == {"audio", "silence", "disrupt", "bgm", "srt", "meta_tmp"}

\* C8: once process_video has returned or raised, no temporary file of the
\* run exists any more.
C8_NoTempFileLeft == pc = "done" => files \cap TempRoles = {}

\* C9: when process_video has raised after the encoder was started, no
\* file exists at output_path.
C9_NoPartialOutput ==
    (pc = "done" /\ outcome = "raised" /\ encoder # "none")
        => "output" \notin files

\* C10: when the encoder has exited with a non-zero status, process_video
\* ends with an error.
C10_EncoderFailureFatal ==
    (pc = "done" /\ encoder = "exited" /\ enc_rc # 0) => outcome = "raised"

\* C11: with timeline randomization enabled and a drop or duplicate ratio
\* above zero, every real frame on the encoder's stdin, the first one
\* included, was written by the statement that follows the drop decision
\* or by the duplicating write, and a duplicate directly follows the
\* record of the same frame.
C11_EveryRealFrameDecided ==
    (Timeline /\ (config.frame_drop_ratio > 0
                    \/ config.frame_duplicate_ratio > 0))
    => \A i \in 1..Len(written) :
          /\ written[i].kind \in {"intro", "frame", "dup", "outro"}
          /\ written[i].kind = "dup" =>
                /\ i > 1
                /\ written[i - 1].kind = "frame"
                /\ written[i - 1].idx = written[i].idx

\* A run of _write_frames that reached its end with nothing dropped or
\* duplicated by configuration.
PlainTimelineRunEnded ==
    /\ pc = "done"
    /\ outcome = "returned"
    /\ Timeline
    /\ config.frame_drop_ratio = 0
    /\ config.frame_duplicate_ratio = 0
    /\ ~config.enable_frame_swap

\* C12 as stated: with timeline randomization, add_intro_frames = k and
\* no drop or duplication, an n-frame input gives exactly n + k records,
\* the first k made as intro frames and record k + 1 being frame 0.
C12_IntroPlusFramesOnly ==
    (PlainTimelineRunEnded /\ config.add_intro_frames > 0)
    => /\ Len(written) = total_frames + config.add_intro_frames
       /\ \A i \in 1..config.add_intro_frames : written[i].kind = "intro"
       /\ written[config.add_intro_frames + 1].kind = "first"
       /\ written[config.add_intro_frames + 1].src = 0

\* C12 with the outro counted: the n-frame input gives
\* n + add_intro_frames + add_outro_frames records, the first
\* add_intro_frames made as intro frames from frame 0, the next one being
\* frame 0 itself, and the last add_outro_frames made as outro frames.
C12_IntroFramesOutro ==
    (PlainTimelineRunEnded /\ config.add_intro_frames > 0)
    => /\ Len(written) = total_frames + config.add_intro_frames
                            + config.add_outro_frames
       /\ \A i \in 1..config.add_intro_frames :
             written[i].kind = "intro" /\ written[i].src = 0
       /\ written[config.add_intro_frames + 1].kind = "first"
       /\ written[config.add_intro_frames + 1].src = 0
       /\ \A i \in 1..Len(written) :
             written[i].kind = "outro"
                <=> i > total_frames + config.add_intro_frames

\* C12: a run with intro frames and outro frames around two or more real
\* frames has ended.
C12_IntroAndOutroWritten ==
    /\ PlainTimelineRunEnded
    /\ config.add_intro_frames > 0
    /\ config.add_outro_frames > 0
    /\ total_frames >= 2
    /\ Len(written) > total_frames + config.add_intro_frames

\* The order of the steps as the specification lists them: rotate,
\* crop/resize, colour adjust, watermark, subtitle, titles,
\* picture-in-picture, colour shift, background blur, phase scramble,
\* texture noise, edge blur, periodic gaussian blur, fade, hash disruption,
\* vignette, dynamic border, sticker, DCT perturbation.
ListedOrder ==
    <<"rotate_frame", "crop", "resize", "adjust_sbc", "add_watermark",
      "add_subtitles", "add_titles", "add_hzh_effect", "color_shift",
      "blur_background", "scramble_phase", "add_texture_noise",
      "apply_edge_blur", "apply_gaussian_blur", "apply_fade_effect",
      "apply_hash_disruption", "apply_vignette", "apply_dynamic_border",
      "apply_sticker", "apply_dct_perturbation">>

IsPrefix(s, t) == Len(s) <= Len(t) /\ SubSeq(t, 1, Len(s)) = s

ListedAndCalled(step) == effect_called(step, fr.enabled)

\* C13: the steps applied to a frame are always an initial part of the
\* listed order (without the overlays that are switched off), and the
\* frame is returned only after all of them, the DCT perturbation last.
C13_EffectsInListedOrder ==
    /\ IsPrefix(fr.applied, SelectSeq(ListedOrder, ListedAndCalled))
    /\ fr.stage = "returned" =>
          fr.applied = SelectSeq(ListedOrder, ListedAndCalled)

\* C13: a frame has been returned with every effect enabled, all twenty
\* steps applied.
C13_AllStepsApplied ==
    /\ fr.stage = "returned"
    /\ fr.enabled = AllEffects
    /\ Len(fr.applied) = Len(ListedOrder)

\* The flag of an effect is off, or its precondition fails: the asset is
\* missing or holds nothing, the interval is zero, the region size is
\* zero, the border width is zero.
DisabledOrPreconditionFails(effect, f) ==
    \/ effect \notin f.enabled /\ effect # "apply_gaussian_blur"
    \/ effect = "apply_gaussian_blur"
          /\ (f.gaussian_blur_interval = 0 \/ f.region_pct = 0)
    \/ effect = "blur_background" /\ f.region_pct = 0
    \/ effect = "add_hzh_effect" /\ f.hzh_file # "video"
    \/ effect = "apply_dynamic_border" /\ f.border_width = 0

\* C14: an effect that was called while disabled or with a failing
\* precondition has returned the frame unchanged and has not raised.
C14_DisabledEffectIsIdentity ==
    (fr.stage \in {"effects", "raised"} /\ fr.pos > 0 /\ fr.last # "none"
        /\ EffectChain[fr.pos] # "apply_fade_effect"
        /\ DisabledOrPreconditionFails(EffectChain[fr.pos], fr))
    => fr.last = "unchanged"

\* Every enabling flag off, no rotation, no crop, no flip.
EverythingSwitchedOff(f) ==
    /\ f.enabled = {}
    /\ f.gaussian_blur_interval = 0
    /\ f.rotation_angle = 0
    /\ f.crop_percentage = 0
    /\ ~f.flip_horizontal

\* C15 as stated: with every effect switched off, no rotation, crop or
\* flip, the returned frame has the pixels of the decoded frame.
C15_SwitchedOffIsIdentity ==
    (fr.stage = "returned" /\ EverythingSwitchedOff(fr))
        => fr.pixels = "input"

\* C15 with the fade taken into account: with every effect switched off,
\* fade_in_frames = 0 and fade_out_frames = 0, no rotation, crop or flip,
\* and a decoded raster of the probed size, the frame is returned with the
\* pixels of the decoded frame.
C15_SwitchedOffNoFadeIsIdentity ==
    (fr.stage \in {"returned", "raised"} /\ EverythingSwitchedOff(fr)
        /\ fr.fade_in_frames = 0 /\ fr.fade_out_frames = 0
        /\ fr.decoded_height = fr.orig_height
        /\ fr.decoded_width = fr.orig_width)
    => fr.stage = "returned" /\ fr.pixels = "input"

\* C15: the first frame of a video has been returned with everything
\* switched off and both fade lengths zero.
C15_PlainFirstFrameReturned ==
    /\ fr.stage = "returned"
    /\ EverythingSwitchedOff(fr)
    /\ fr.fade_in_frames = 0
    /\ fr.fade_out_frames = 0
    /\ fr.frame_idx = 0
    /\ Len(fr.applied) = Len(ListedOrder) - 3

\* C16: the audio remove_silence exports is never longer than its input.
C16_SilenceRemovalNeverLonger ==
    (au # <<>> /\ au.kind = "silence" /\ au.stage = "exported")
    => au.out_len <= Len(au.audio)

\* C19: the pitch shift of disrupt_audio leaves the duration of the audio
\* as it was, for either shift direction.
C19_PitchShiftKeepsDuration ==
    (au # <<>> /\ au.kind = "pitch" /\ au.stage = "shifted"
        /\ au.pitch_shift_semitones > 0)
    => duration_ms(au.frame_count, au.frame_rate) = au.before_ms


\* C17: a failure inside silence removal or fingerprint disruption is
\* absorbed by the stage: no exception of either stage leaves process_video.
C17_AudioStageFailureFallsBack ==
    exc \notin {"remove_silence", "disrupt_audio"}

StageOrder == <<"remove_silence", "disrupt_audio", "mix_bgm", "atempo">>

StageDisabled(name) ==
    CASE name = "remove_silence" -> ~config.enable_silence_check
      [] name = "disrupt_audio" -> ~config.enable_audio_fingerprint_disrupt
      [] name = "mix_bgm" -> ~config.include_background_music
      [] name = "atempo" -> ~config.enable_speed_change

\* C18: the audio stages are passed in the order silence removal,
\* fingerprint disruption, background music, tempo; the first is given the
\* extracted audio and each later one what the one before handed on; a
\* disabled stage hands on what it was given; the stream the encoder is
\* started with is the one the last stage handed on.
C18_AudioStagesInOrder ==
    /\ Len(audio_log) <= Len(StageOrder)
    /\ \A i \in 1..Len(audio_log) :
          /\ audio_log[i].stage = StageOrder[i]
          /\ audio_log[i].input = (IF i = 1 THEN Plain("audio")
                                           ELSE audio_log[i - 1].output)
          /\ StageDisabled(audio_log[i].stage)
                => audio_log[i].output = audio_log[i].input
    /\ (encoder # "none" /\ has_audio)
          => /\ Len(audio_log) = Len(StageOrder)
             /\ Stream(audio_stream, atempo)
                    = audio_log[Len(StageOrder)].output
    /\ (encoder # "none" /\ ~has_audio)
          => audio_log = <<>> /\ audio_stream = NoFile

\* C18: the encoder runs on the audio that went through all four stages,
\* every one of them enabled and effective.
C18_AllStagesEffective ==
    /\ encoder = "running"
    /\ has_audio
    /\ \A i \in 1..Len(StageOrder) : ~StageDisabled(StageOrder[i])
    /\ audio_log[1].output = Plain("silence")
    /\ audio_log[2].output = Plain("disrupt")
    /\ audio_log[3].output = Plain("bgm")
    /\ speed_factor # 1000
    /\ audio_log[4].output = Stream("bgm", speed_factor)

C21_RunningWithinPoolSize ==
    NumRunning <= max_workers

\* C21: every thread of the pool is busy while a frame of the batch waits.
C21_PoolSaturated ==
    /\ NumRunning = max_workers
    /\ \E i \in 1..Len(tasks) : tasks[i].st = "queued"

Times(log, name) == Cardinality({i \in 1..Len(log) : log[i] = name})

\* C22: once a frame has been read for the first batch, the flip direction
\* and the speed factor have each been drawn exactly once where their
\* randomization is enabled (and never where it is not), and from then on
\* no step changes the Config, the speed factor or draws again.
C22_RolledOnceBeforeFrames ==
    /\ [](next_idx > 0 =>
            /\ Times(rolled, "flip_horizontal")
                  = (IF config.enable_random_flip THEN 1 ELSE 0)
            /\ Times(rolled, "speed_factor")
                  = (IF config.enable_speed_change THEN 1 ELSE 0))
    /\ [][next_idx > 0 =>
            /\ config' = config
            /\ speed_factor' = speed_factor
            /\ rolled' = rolled]_vars

\* C22: a worker is transforming a frame in a run whose flip direction was
\* drawn at random and written to the Config.
C22_WorkerRunsAfterFlipRoll ==
    /\ NumRunning > 0
    /\ config.enable_random_flip
    /\ config.flip_horizontal
    /\ rolled = <<"flip_horizontal">>

\* C23: moving left to right over the source of the scenario, a watermark
\* that fits between the margins is at x = MARGIN on frame 0 and, to the
\* pixel or one beside it, at x = video_width - MARGIN - watermark_width on
\* the last frame.
C23_LeftToRightReachesRightMargin ==
    (wm # <<>> /\ wm.stage = "placed" /\ wm.direction = "left_to_right")
    => /\ wm.frame_index = 0 => wm.x = MARGIN
       /\ wm.frame_index = wm.total - 1
             => Abs(wm.x - (wm.video_width - MARGIN - wm.watermark_width))
                   <= 1

\* A feature that is enabled and whose file does not exist.
EnabledAssetMissing(c) ==
    \/ c.include_watermark /\ c.watermark_type = "image"
          /\ ~exists(c.watermark_image_path)
    \/ c.include_watermark /\ c.watermark_type = "video"
          /\ ~exists(c.watermark_video_path)
    \/ c.custom_font_enabled /\ ~exists(c.font_file)
    \/ c.include_background_music /\ ~exists(c.background_music_file)
    \/ c.include_subtitles /\ ~exists(c.subtitles_file)
    \/ c.include_hzh /\ ~exists(c.hzh_video_file)

\* C24: validate raises FileNotFoundError exactly for the Configs in which
\* an enabled feature's file does not exist.
C24_FilesRequiredIffFeatureEnabled ==
    (vc # <<>> /\ vc.stage = "validated")
    => (vc.result = "FileNotFoundError" <=> EnabledAssetMissing(vc))

\* C25: while the metadata-clean pass is under way the encoder's stdin has
\* been closed, the encoder has exited, it exited with status 0, and
\* enable_metadata_clean is set.
C25_MetadataCleanOnlyAfterSuccess ==
    pc \in {"cm_move", "cm_remove"}
    => /\ ~stdin_open
       /\ encoder = "exited"
       /\ enc_rc = 0
       /\ config.enable_metadata_clean

RealKinds == {"first", "frame", "dup"}

SameFrame(rec, f) == rec.idx = f.idx /\ rec.src = f.src

\* C26 as stated: every intro record is made from the first frame of the
\* ordered stream and every outro record from its last frame, whatever
\* was dropped.
C26_IntroFromFirstOutroFromLast ==
    \A i \in 1..Len(written) :
        /\ written[i].kind = "intro" => SameFrame(written[i], emitted[1])
        /\ written[i].kind = "outro"
              => SameFrame(written[i], emitted[Len(emitted)])

\* C26: every intro record is made from the first frame of the ordered
\* stream, and every outro record from the last real frame that was
\* written to the encoder: the last frame of the stream unless that one
\* was dropped.
C26_IntroFromFirstOutroFromLastWritten ==
    \A i \in 1..Len(written) :
        /\ written[i].kind = "intro" => SameFrame(written[i], emitted[1])
        /\ written[i].kind = "outro"
              => \E j \in 1..(i - 1) :
                    /\ written[j].kind \in RealKinds
                    /\ \A k \in (j + 1)..(i - 1) : written[k].kind = "outro"
                    /\ SameFrame(written[i], written[j])

\* C26: intro and outro frames have been written in a run whose last real
\* frame was dropped.
C26_OutroAfterLastFrameDropped ==
    /\ pc = "wf_close"
    /\ written[1].kind = "intro"
    /\ written[Len(written)].kind = "outro"
    /\ dropped_count > 0
    /\ written[Len(written)].idx < emitted[Len(emitted)].idx

\* C27: outside _process_batch no frame is queued or being transformed and
\* every worker of the batch last handed on has returned; a frame is
\* decoded only by the generator loop of _process_frames, and only then.
C27_DecodeOnlyBetweenBatches ==
    /\ [](pc # "pb_wait" =>
            /\ tasks = <<>>
            /\ exc = "none" => Len(done_order) = Len(processed_batch))
    /\ [][next_idx' # next_idx => pc = "pf_read" /\ tasks = <<>>]_vars

\* C27: the decoder is about to read a frame of the second batch after
\* the two workers of the first batch returned, the second one first.
C27_SecondBatchAfterWorkers ==
    /\ pc = "pf_read"
    /\ batch = <<>>
    /\ next_idx < total_frames
    /\ done_order = <<2, 1>>

\* C28: with frame swap enabled, once every frame of the run has been
\* emitted, the source indices that were read are 0..total_frames-1, each
\* of them once.
C28_SwapReadsAPermutation ==
    (config.enable_frame_swap /\ Len(emitted) = total_frames)
    => /\ {emitted[i].src : i \in 1..Len(emitted)} = 0..(total_frames - 1)
       /\ \A i, j \in 1..Len(emitted) :
             emitted[i].src = emitted[j].src => i = j

\* process.stdin.close() has been executed.
StdinClosed == encoder # "none" /\ ~stdin_open

\* The written records are ni intro records, then real frames in
\* non-decreasing index order with at most two records of an index, then
\* no outro records, of the stated total length.
SequenceForm(ni, no) ==
    LET n == Len(written) IN
    /\ n = ni + Len(emitted) - dropped_count + duplicated_count + no
    /\ \A i \in 1..n :
          written[i].kind = (IF i <= ni THEN "intro"
                             ELSE IF i > n - no THEN "outro"
                             ELSE written[i].kind)
    /\ \A i \in (ni + 1)..(n - no) :
          /\ written[i].kind \in RealKinds
          /\ i < n - no => written[i].idx <= written[i + 1].idx
          /\ Cardinality({j \in (ni + 1)..(n - no) :
                            written[j].idx = written[i].idx}) <= 2

\* C29 as stated: when the pipe is closed the records are add_intro_frames
\* intro records, the real frames and add_outro_frames outro records.
C29_WrittenSequenceForm ==
    StdinClosed
    => SequenceForm(config.add_intro_frames, config.add_outro_frames)

\* C29: when the pipe is closed the records are the intro records, the
\* real frames in increasing index order, each zero, one or two times
\* with its copies adjacent, and the outro records, add_intro_frames and
\* add_outro_frames of them with timeline randomization enabled and none
\* without; and nothing is written once the pipe is closed.
C29_WrittenSequenceFormTimeline ==
    /\ [](StdinClosed
            => SequenceForm(IF Timeline THEN config.add_intro_frames ELSE 0,
                            IF Timeline THEN config.add_outro_frames ELSE 0))
    /\ [][StdinClosed => written' = written]_vars

\* C29: the pipe has been closed on an intro record, a first frame, a
\* dropped frame, a frame written twice and an outro record.
C29_ClosedAfterDropAndDuplicate ==
    /\ StdinClosed
    /\ dropped_count = 1
    /\ duplicated_count = 1
    /\ config.add_intro_frames = 1
    /\ config.add_outro_frames = 1
    /\ [i \in 1..Len(written) |-> written[i].kind]
          = <<"intro", "first", "frame", "dup", "outro">>

\* C30: every video in the processed log is one whose process_video
\* returned, no video whose process_video raised is in it, and when
\* process_all_videos ends every video found has been taken and
\* success_count + fail_count is their number.
C30_LogAfterSuccessCountsAddUp ==
    drv # <<>>
    => /\ Range(drv.log) \subseteq drv.returned
       /\ Range(drv.log) \cap drv.raised = {}
       /\ Len(drv.log) = drv.success_count
       /\ drv.pc = "ended"
             => /\ drv.success_count + drv.fail_count = drv.found
                /\ drv.i = drv.found + 1

\* C30: the driver has ended after a video whose process_video raised was
\* followed by one that was processed and logged.
C30_FailureThenLoggedSuccess ==
    /\ drv # <<>>
    /\ drv.pc = "ended"
    /\ \E v \in drv.raised : \E k \in 1..Len(drv.log) : v < drv.log[k]
    /\ drv.success_count + drv.fail_count = drv.found

=============================================================================
